---- MODULE Spec2Model ----
(***************************************************************************)
(* Job-Resume Matcher (src/app.py): the "Calculate Match Scores" handler   *)
(* of the Streamlit page, its text preprocessing, file extraction, TF-IDF  *)
(* vectorisation, cosine similarity and ranking.                            *)
(*                                                                         *)
(* Text is a sequence of one-character strings.  The literal separator of  *)
(* pasted resumes is one atomic symbol of a text (SEPARATOR).               *)
(*                                                                         *)
(* Real-valued quantities (idf weights, unit vectors, cosine) are kept in  *)
(* fixed point: idf and unit-vector components in thousandths, a cosine in *)
(* millionths, a Match Score in units of 10^-6 percent (100% = 10^8).      *)
(* Norms are rounded up, so that a unit vector never exceeds length one.   *)
(***************************************************************************)
EXTENDS Integers, Sequences, FiniteSets, TLC

VARIABLES
    job_description_input,  \* st.text_area value (app.py:69)
    uploaded_files,         \* st.file_uploader value, a list (app.py:78)
    resumes_text_input,     \* st.text_area value (app.py:85)
    pc,                     \* position of the script run of the handler
    file_idx,               \* index of the next uploaded file of the loop
    resume_list,            \* app.py:98
    resume_names,           \* app.py:99
    origin,                 \* history: where each accepted candidate came from
    visited,                \* history: indices of the files the loop reached
    messages,               \* st.warning / st.error / st.success calls
    outcome,                \* how the handler ended
    similarity_scores,      \* app.py:159
    results_df,             \* the sorted DataFrame, a sequence of rows
    pp_in,                  \* argument of a direct call of preprocess_text
    pp_out                  \* its return value

vars == <<job_description_input, uploaded_files, resumes_text_input, pc,
          file_idx, resume_list, resume_names, origin, visited, messages,
          outcome, similarity_scores, results_df, pp_in, pp_out>>

inputVars == <<job_description_input, uploaded_files, resumes_text_input>>
runVars == <<pc, file_idx, resume_list, resume_names, origin, visited,
             messages, outcome, similarity_scores, results_df>>
ppVars == <<pp_in, pp_out>>

\* Largest number of files the uploader holds.
MaxFiles == 2
\* Longest text handed to a direct call of preprocess_text.
MaxLen == 3

----------------------------------------------------------------------------
(* Characters *)

UpperCase ==
    <<"A","B","C","D","E","F","G","H","I","J","K","L","M",
      "N","O","P","Q","R","S","T","U","V","W","X","Y","Z">>
LowerCase ==
    <<"a","b","c","d","e","f","g","h","i","j","k","l","m",
      "n","o","p","q","r","s","t","u","v","w","x","y","z">>
Digits == {"0","1","2","3","4","5","6","7","8","9"}
Whitespace == {" ", "\n", "\t"}
SEPARATOR == "---RESUME-SEPARATOR---"

Range(s) == {s[i] : i \in 1..Len(s)}
UpperLetters == Range(UpperCase)
LowerLetters == Range(LowerCase)

\* Python None, as returned by the extractors and by page.extract_text().
None == <<"<None>">>

\* str.lower() of one character.
LowerChar(c) ==
    IF c \in UpperLetters
    THEN LowerCase[CHOOSE i \in 1..Len(UpperCase) : UpperCase[i] = c]
    ELSE c

\* \w of Python's re: letters, digits and the underscore.
IsWordChar(c) == c \in UpperLetters \cup LowerLetters \cup Digits \cup {"_"}
\* \s of Python's re, and the characters str.strip() removes.
IsSpace(c) == c \in Whitespace

----------------------------------------------------------------------------
(* preprocess_text, app.py:13-23 *)

lower(text) == [i \in 1..Len(text) |-> LowerChar(text[i])]

\* re.sub(r'[^\w\s]', '', text)
RemovePunctuation(text) ==
    SelectSeq(text, LAMBDA c : IsWordChar(c) \/ IsSpace(c))

\* re.sub(r'\s+', ' ', text)
RECURSIVE CollapseWhitespace(_)
CollapseWhitespace(text) ==
    IF text = <<>> THEN <<>>
    ELSE IF IsSpace(Head(text))
         THEN IF Len(text) > 1 /\ IsSpace(text[2])
              THEN CollapseWhitespace(Tail(text))
              ELSE <<" ">> \o CollapseWhitespace(Tail(text))
         ELSE <<Head(text)>> \o CollapseWhitespace(Tail(text))

\* str.strip()
RECURSIVE lstrip(_)
lstrip(text) ==
    IF text # <<>> /\ IsSpace(Head(text)) THEN lstrip(Tail(text)) ELSE text
RECURSIVE rstrip(_)
rstrip(text) ==
    IF text # <<>> /\ IsSpace(text[Len(text)])
    THEN rstrip(SubSeq(text, 1, Len(text) - 1))
    ELSE text
strip(text) == rstrip(lstrip(text))

preprocess_text(text) ==
    strip(CollapseWhitespace(RemovePunctuation(lower(text))))

----------------------------------------------------------------------------
(* Uploaded files and their extraction, app.py:26-56 and 104-117 *)

\* An uploaded file: its name, whether its bytes can be read in the format
\* its extension names (valid UTF-8 / a well-formed PDF / a well-formed
\* DOCX), and what it holds: the decoded text of a .txt file (one part), the
\* extract_text() of each page of a PDF (None for a page without text), the
\* text of each paragraph of a DOCX.
UploadedFile(name, ok, parts) == [name |-> name, ok |-> ok, parts |-> parts]

RECURSIVE Concat(_)
Concat(parts) ==
    IF parts = <<>> THEN <<>> ELSE Head(parts) \o Concat(Tail(parts))

\* file_name.split('.')[-1]
RECURSIVE LastDotPart(_)
LastDotPart(name) ==
    IF \E i \in 1..Len(name) : name[i] = "."
    THEN LastDotPart(Tail(name))
    ELSE name

file_extension(file_name) == lower(LastDotPart(file_name))

ExtTxt == <<"t","x","t">>
ExtPdf == <<"p","d","f">>
ExtDocx == <<"d","o","c","x">>

\* uploaded_file.getvalue().decode("utf-8") raises on invalid bytes.
DecodeRaises(file) == ~file.ok
DecodeUtf8(file) == Concat(file.parts)

\* text += page.extract_text() or ""   for every page; None on an exception
extract_text_from_pdf(file) ==
    IF ~file.ok THEN None
    ELSE Concat([i \in 1..Len(file.parts) |->
                   IF file.parts[i] = None THEN <<>> ELSE file.parts[i]])

\* text += paragraph.text + "\n"   for every paragraph; None on an exception
extract_text_from_docx(file) ==
    IF ~file.ok THEN None
    ELSE Concat([i \in 1..Len(file.parts) |-> file.parts[i] \o <<"\n">>])

\* "resume_content and resume_content.strip()", app.py:119
Truthy(resume_content) ==
    /\ resume_content # None
    /\ resume_content # <<>>
    /\ strip(resume_content) # <<>>

\* The label of a row: a file name, or f"Pasted Resume {n}".
FileLabel(file_name) == [kind |-> "file", name |-> file_name, n |-> 0]
PastedLabel(n) == [kind |-> "pasted", name |-> <<>>, n |-> n]

\* One call of st.warning / st.error / st.success.
Message(level, what, name, count) ==
    [level |-> level, what |-> what, name |-> name, count |-> count]

----------------------------------------------------------------------------
(* Pasted resumes, app.py:127-134 *)

\* str.split("---RESUME-SEPARATOR---")
RECURSIVE split(_)
split(text) ==
    IF \E i \in 1..Len(text) : text[i] = SEPARATOR
    THEN LET k == CHOOSE i \in 1..Len(text) :
                     /\ text[i] = SEPARATOR
                     /\ \A j \in 1..(i - 1) : text[j] # SEPARATOR
         IN  <<SubSeq(text, 1, k - 1)>> \o split(SubSeq(text, k + 1, Len(text)))
    ELSE <<text>>

\* [res.strip() for res in ...split(...) if res.strip()]
StripAll(segments) == [i \in 1..Len(segments) |-> strip(segments[i])]
pasted_resumes(text) ==
    SelectSeq(StripAll(split(text)), LAMBDA res : res # <<>>)

----------------------------------------------------------------------------
(* TfidfVectorizer(stop_words='english', max_features=5000), app.py:151-152 *)

\* The words of scikit-learn's English stop list that the texts of this
\* model can spell.
StopWords ==
    {<<"a","n">>, <<"a","n","d">>, <<"t","h","e">>, <<"w","i","t","h">>,
     <<"o","f">>, <<"i","n">>, <<"t","o">>, <<"f","o","r">>, <<"i","s">>,
     <<"o","n">>, <<"a","t">>, <<"b","y">>, <<"o","r">>, <<"a","s">>}

max_features == 5000

\* token_pattern (?u)\b\w\w+\b : the maximal runs of two or more word
\* characters; cur is the run being read.
RECURSIVE Tokens(_, _)
Tokens(text, cur) ==
    LET done == IF Len(cur) >= 2 THEN <<cur>> ELSE <<>>
    IN  IF text = <<>> THEN done
        ELSE IF IsWordChar(Head(text))
             THEN Tokens(Tail(text), Append(cur, Head(text)))
             ELSE done \o Tokens(Tail(text), <<>>)

\* build_analyzer: lowercase, tokenize, drop the stop words.
analyze(doc) ==
    SelectSeq(Tokens(lower(doc), <<>>), LAMBDA t : t \notin StopWords)

\* Number of occurrences of term among tokens.
Count(tokens, term) == Cardinality({i \in 1..Len(tokens) : tokens[i] = term})

RECURSIVE SumOver(_, _)
SumOver(S, f) ==
    IF S = {} THEN 0
    ELSE LET x == CHOOSE y \in S : TRUE
         IN  f[x] + SumOver(S \ {x}, f)

\* The terms of the analysed corpus; capped to the max_features terms of the
\* largest corpus-wide count (_limit_features).
Vocabulary(docs) ==
    LET all == UNION {Range(docs[d]) : d \in 1..Len(docs)}
        total == [t \in all |->
                    SumOver(1..Len(docs), [d \in 1..Len(docs) |-> Count(docs[d], t)])]
    IN  IF Cardinality(all) <= max_features THEN all
        ELSE CHOOSE V \in SUBSET all :
                 /\ Cardinality(V) = max_features
                 /\ \A t \in V, u \in all \ V : total[t] >= total[u]

\* fit_transform raises ValueError("empty vocabulary; perhaps the documents
\* only contain stop words") when no term is left.
EmptyVocabulary(corpus) ==
    Vocabulary([d \in 1..Len(corpus) |-> analyze(corpus[d])]) = {}

\* 1000 * ln(k), k = 1..10.
LnMilli == <<0, 693, 1099, 1386, 1609, 1792, 1946, 2079, 2197, 2303>>

\* smooth_idf: idf(t) = ln((1 + n) / (1 + df(t))) + 1, in thousandths.
Idf(n, df) == LnMilli[1 + n] - LnMilli[1 + df] + 1000

\* The least s in lo..hi with s * s >= n.
RECURSIVE SqrtSearch(_, _, _)
SqrtSearch(n, lo, hi) ==
    IF lo >= hi THEN lo
    ELSE LET mid == (lo + hi) \div 2
         IN  IF mid * mid >= n THEN SqrtSearch(n, lo, mid)
             ELSE SqrtSearch(n, mid + 1, hi)
CeilSqrt(n) == SqrtSearch(n, 0, 46340)

\* sklearn.preprocessing.normalize(norm='l2') of one row: a zero row stays
\* zero; components in thousandths.
Normalize(row) ==
    LET V == DOMAIN row
        norm == CeilSqrt(SumOver(V, [t \in V |-> row[t] * row[t]]))
    IN  IF norm = 0 THEN row
        ELSE [t \in V |-> (row[t] * 1000) \div norm]

\* vectorizer.fit_transform(corpus): one l2-normalised tf-idf row per
\* document of the corpus.
fit_transform(corpus) ==
    LET docs == [d \in 1..Len(corpus) |-> analyze(corpus[d])]
        V == Vocabulary(docs)
        n == Len(docs)
        df == [t \in V |-> Cardinality({d \in 1..n : Count(docs[d], t) > 0})]
    IN  [d \in 1..n |->
           Normalize([t \in V |-> Count(docs[d], t) * Idf(n, df[t])])]

\* cosine_similarity(X, Y)[0] for one row of Y: both rows are normalised
\* again, then multiplied.  1.0 is 10^6.
cosine_similarity(x, y) ==
    LET xn == Normalize(x)
        yn == Normalize(y)
        V == DOMAIN x
    IN  SumOver(V, [t \in V |-> xn[t] * yn[t]])

\* "Match Score": score * 100, a percentage in units of 10^-6 (100% is 10^8).
MatchScore(score) == score * 100

----------------------------------------------------------------------------
(* Ranking, app.py:162-174 *)

\* One row of results / results_df.  index is the row's index in the
\* unsorted DataFrame (the i of enumerate), which reset_index(drop=True)
\* replaces; it is kept here as history.
Row(id, text, score, i) ==
    [ResumeID |-> id, OriginalResumeText |-> text, MatchScore |-> score,
     index |-> i]

\* results_df.sort_values(by="Match Score", ascending=False): pandas sorts
\* with kind='quicksort' unless told otherwise, which orders rows of equal
\* score in an order numpy does not specify; every descending order is a
\* possible outcome.  S is the set of rows still to place.
RECURSIVE DescendingOrders(_, _)
DescendingOrders(results, S) ==
    IF S = {} THEN {<<>>}
    ELSE LET top == {i \in S : \A j \in S :
                        results[i].MatchScore >= results[j].MatchScore}
         IN  UNION {{<<results[i]>> \o rest :
                        rest \in DescendingOrders(results, S \ {i})} : i \in top}

\* Mutant of sort_values: ascending=False forgotten.
RECURSIVE AscendingOrders(_, _)
AscendingOrders(results, S) ==
    IF S = {} THEN {<<>>}
    ELSE LET low == {i \in S : \A j \in S :
                        results[i].MatchScore <= results[j].MatchScore}
         IN  UNION {{<<results[i]>> \o rest :
                        rest \in AscendingOrders(results, S \ {i})} : i \in low}
sort_values_ascending(results) == AscendingOrders(results, 1..Len(results))

sort_values(results) == DescendingOrders(results, 1..Len(results))

----------------------------------------------------------------------------
(* The inputs a user can give *)

RefText ==
    <<"D","a","t","a"," ","S","c","i","e","n","t","i","s","t"," ","w","i",
      "t","h"," ","P","y","t","h","o","n"," ","a","n","d"," ","S","Q","L",
      " ","e","x","p","e","r","i","e","n","c","e">>
TextA ==
    <<"E","x","p","e","r","i","e","n","c","e","d"," ","P","y","t","h","o",
      "n"," ","d","e","v","e","l","o","p","e","r"," ","w","i","t","h"," ",
      "S","Q","L"," ","s","k","i","l","l","s">>
TextB ==
    <<"G","r","a","p","h","i","c"," ","d","e","s","i","g","n","e","r"," ",
      "w","i","t","h"," ","P","h","o","t","o","s","h","o","p"," ","s","k",
      "i","l","l","s">>
ShortA == <<"S","Q","L"," ","d","e","v",".">>
ShortB == <<"A","r","t">>
StopOnly == <<"T","h","e">>
BlankText == <<" ","\n">>
PunctOnly == <<"!","?","!">>

JobDescriptions == {<<>>, BlankText, StopOnly, RefText}

PastedTexts ==
    {<<>>,
     TextA \o <<"\n", SEPARATOR, "\n">> \o TextB \o <<"\n", SEPARATOR>>,
     ShortB \o <<SEPARATOR>> \o ShortB \o <<SEPARATOR, " ">>,
     <<" ", SEPARATOR, "\n">>,
     PunctOnly}

Files ==
    {UploadedFile(<<"c","v",".","t","x","t">>, TRUE, <<ShortA>>),
     UploadedFile(<<"b","a","d",".","t","x","t">>, FALSE, <<>>),
     UploadedFile(<<"b","l","a","n","k",".","t","x","t">>, TRUE, <<BlankText>>),
     UploadedFile(<<"c","v",".","P","D","F">>, TRUE, <<ShortB, None>>),
     UploadedFile(<<"b","r","o","k","e","n",".","p","d","f">>, FALSE, <<>>),
     UploadedFile(<<"c","v",".","d","o","c","x">>, TRUE, <<PunctOnly>>),
     UploadedFile(<<"o","l","d",".","d","o","c","x">>, FALSE, <<>>),
     UploadedFile(<<"n","o","t","e","s",".","m","d">>, TRUE, <<ShortA>>)}

\* The characters of the texts handed to preprocess_text directly.
PreAlphabet == {"A", "b", "7", "_", "!", " ", "\n"}
TextsUpTo(n) == UNION {[1..k -> PreAlphabet] : k \in 0..n}

----------------------------------------------------------------------------
(* The page *)

Init ==
    /\ job_description_input = <<>>
    /\ uploaded_files = <<>>
    /\ resumes_text_input = <<>>
    /\ pc = "idle"
    /\ file_idx = 1
    /\ resume_list = <<>>
    /\ resume_names = <<>>
    /\ origin = <<>>
    /\ visited = {}
    /\ messages = <<>>
    /\ outcome = "none"
    /\ similarity_scores = <<>>
    /\ results_df = <<>>
    /\ pp_in = <<>>
    /\ pp_out = None

\* A change of a widget reruns the script with the button not pressed:
\* nothing of an earlier run stays on the page.
Rerun ==
    /\ pc' = "idle"
    /\ file_idx' = 1
    /\ resume_list' = <<>>
    /\ resume_names' = <<>>
    /\ origin' = <<>>
    /\ visited' = {}
    /\ messages' = <<>>
    /\ outcome' = "none"
    /\ similarity_scores' = <<>>
    /\ results_df' = <<>>

\* The script runs to completion before the next widget event is handled.
Settled == pc \in {"idle", "done"}

EnterJobDescription ==
    /\ Settled
    /\ \E t \in JobDescriptions :
          /\ t # job_description_input
          /\ job_description_input' = t
    /\ Rerun
    /\ UNCHANGED <<uploaded_files, resumes_text_input, ppVars>>

UploadFile ==
    /\ Settled
    /\ Len(uploaded_files) < MaxFiles
    /\ \E f \in Files : uploaded_files' = Append(uploaded_files, f)
    /\ Rerun
    /\ UNCHANGED <<job_description_input, resumes_text_input, ppVars>>

PasteResumes ==
    /\ Settled
    /\ \E t \in PastedTexts :
          /\ t # resumes_text_input
          /\ resumes_text_input' = t
    /\ Rerun
    /\ UNCHANGED <<job_description_input, uploaded_files, ppVars>>

\* st.button("Calculate Match Scores") is pressed, app.py:97-102.
ClickCalculate ==
    /\ Settled
    /\ resume_list' = <<>>
    /\ resume_names' = <<>>
    /\ origin' = <<>>
    /\ visited' = {}
    /\ messages' = <<>>
    /\ outcome' = "none"
    /\ similarity_scores' = <<>>
    /\ results_df' = <<>>
    /\ file_idx' = 1
    /\ pc' = IF uploaded_files # <<>> THEN "files" ELSE "pasted"
    /\ UNCHANGED <<inputVars, ppVars>>

----------------------------------------------------------------------------
(* The uploaded-file loop, app.py:103-124 *)

Supported(ext) == ext \in {ExtTxt, ExtPdf, ExtDocx}

\* resume_content of one file whose extension is supported and whose
\* decoding does not raise, app.py:108-114.
ResumeContent(uploaded_file) ==
    LET ext == file_extension(uploaded_file.name)
    IN  IF ext = ExtTxt THEN DecodeUtf8(uploaded_file)
        ELSE IF ext = ExtPdf THEN extract_text_from_pdf(uploaded_file)
        ELSE extract_text_from_docx(uploaded_file)

\* What the extractors and the loop body report about one file:
\* st.error in the except branch of an extractor (app.py:39, 54), then
\* st.warning of the loop (app.py:116, 123).
FileMessages(uploaded_file) ==
    LET file_name == uploaded_file.name
        ext == file_extension(file_name)
    IN  IF ~Supported(ext)
        THEN <<Message("warning", "UnsupportedFileType", file_name, 0)>>
        ELSE IF ResumeContent(uploaded_file) = None
        THEN <<Message("error",
                       IF ext = ExtPdf THEN "ErrorReadingPDF"
                                       ELSE "ErrorReadingDOCX",
                       <<>>, 0),
               Message("warning", "CouldNotExtract", file_name, 0)>>
        ELSE <<>>

\* app.py:119: the file joins resume_list and resume_names.
Accepted(uploaded_file) ==
    /\ Supported(file_extension(uploaded_file.name))
    /\ Truthy(ResumeContent(uploaded_file))

\* The .txt branch raises UnicodeDecodeError, which nothing catches: the
\* script run ends there.
Raises(uploaded_file) ==
    /\ file_extension(uploaded_file.name) = ExtTxt
    /\ DecodeRaises(uploaded_file)

\* st.success after the loop, app.py:124.
LoadedFromFiles(count) == Message("success", "LoadedFromFiles", <<>>, count)

\* One iteration of "for uploaded_file in uploaded_files".
ProcessUploadedFile ==
    /\ pc = "files"
    /\ LET uploaded_file == uploaded_files[file_idx]
           last == file_idx = Len(uploaded_files)
           new_list == IF Accepted(uploaded_file)
                       THEN Append(resume_list, ResumeContent(uploaded_file))
                       ELSE resume_list
       IN  /\ visited' = visited \cup {file_idx}
           /\ IF Raises(uploaded_file)
              THEN /\ pc' = "done"
                   /\ outcome' = "UnicodeDecodeError"
                   /\ UNCHANGED <<file_idx, resume_list, resume_names, origin,
                                  messages>>
              ELSE /\ resume_list' = new_list
                   /\ resume_names' =
                        IF Accepted(uploaded_file)
                        THEN Append(resume_names, FileLabel(uploaded_file.name))
                        ELSE resume_names
                   /\ origin' =
                        IF Accepted(uploaded_file)
                        THEN Append(origin, [src |-> "file", idx |-> file_idx])
                        ELSE origin
                   /\ messages' =
                        messages \o FileMessages(uploaded_file) \o
                        (IF last THEN <<LoadedFromFiles(Len(new_list))>>
                                 ELSE <<>>)
                   /\ file_idx' = file_idx + 1
                   /\ pc' = IF last THEN "pasted" ELSE "files"
                   /\ outcome' = outcome
    /\ UNCHANGED <<inputVars, similarity_scores, results_df, ppVars>>

----------------------------------------------------------------------------
(* The pasted text, app.py:127-134 *)

\* Mutant of PastedNames: one name too many (range(count + 1)).
PastedNamesOneMore(files, count) ==
    [k \in 1..(count + 1) |-> PastedLabel(Len(files) + (k - 1) + 1)]

\* f"Pasted Resume {len(uploaded_files) + i + 1}" for i in range(count)
PastedNames(files, count) ==
    [k \in 1..count |-> PastedLabel(Len(files) + (k - 1) + 1)]

ProcessPastedText ==
    /\ pc = "pasted"
    /\ LET pasted == pasted_resumes(resumes_text_input)
       IN  IF strip(resumes_text_input) # <<>> /\ pasted # <<>>
           THEN /\ resume_list' = resume_list \o pasted
                /\ resume_names' =
                     resume_names \o PastedNames(uploaded_files, Len(pasted))
                /\ origin' =
                     origin \o [k \in 1..Len(pasted) |->
                                  [src |-> "pasted", idx |-> k]]
                /\ messages' =
                     Append(messages,
                            Message("success", "LoadedFromPasted", <<>>,
                                    Len(pasted)))
           ELSE UNCHANGED <<resume_list, resume_names, origin, messages>>
    /\ pc' = "score"
    /\ UNCHANGED <<inputVars, file_idx, visited, outcome, similarity_scores,
                   results_df, ppVars>>

----------------------------------------------------------------------------
(* Validation, scoring and ranking, app.py:136-174 *)

\* corpus = [processed_job_description] + processed_resumes
Corpus(job_description, resumes) ==
    <<preprocess_text(job_description)>> \o
    [i \in 1..Len(resumes) |-> preprocess_text(resumes[i])]

\* cosine_similarity(job_desc_vector, resume_vectors)[0]: row 1 of the
\* matrix against each of the other rows.
CosineRows(tfidf_matrix) ==
    [i \in 1..(Len(tfidf_matrix) - 1) |->
       cosine_similarity(tfidf_matrix[1], tfidf_matrix[i + 1])]

\* results, app.py:162-168
Results(names, list, scores) ==
    [i \in 1..Len(scores) |->
       Row(names[i], list[i], MatchScore(scores[i]), i)]

ValidateAndScore ==
    /\ pc = "score"
    /\ pc' = "done"
    /\ IF job_description_input = <<>>
       THEN /\ outcome' = "MissingReference"
            /\ messages' =
                 Append(messages, Message("error", "EnterJobDescription", <<>>, 0))
            /\ UNCHANGED <<similarity_scores, results_df>>
       ELSE IF resume_list = <<>>
       THEN /\ outcome' = "NoCandidates"
            /\ messages' =
                 Append(messages, Message("error", "UploadOrPasteResume", <<>>, 0))
            /\ UNCHANGED <<similarity_scores, results_df>>
       ELSE LET corpus == Corpus(job_description_input, resume_list)
            IN  IF EmptyVocabulary(corpus)
                THEN /\ outcome' = "ValueError"
                     /\ UNCHANGED <<similarity_scores, results_df, messages>>
                ELSE /\ outcome' = "Results"
                     /\ similarity_scores' = CosineRows(fit_transform(corpus))
                     /\ results_df' \in
                          sort_values(Results(resume_names, resume_list,
                                              similarity_scores'))
                     /\ messages' =
                          Append(messages,
                                 Message("success", "MatchingComplete", <<>>, 0))
    /\ UNCHANGED <<inputVars, file_idx, resume_list, resume_names, origin,
                   visited, ppVars>>

Next ==
    \/ EnterJobDescription
    \/ UploadFile
    \/ PasteResumes
    \/ ClickCalculate
    \/ ProcessUploadedFile
    \/ ProcessPastedText
    \/ ValidateAndScore

Spec == Init /\ [][Next]_vars

----------------------------------------------------------------------------
(* preprocess_text called on its own *)

PreInit ==
    /\ job_description_input = <<>>
    /\ uploaded_files = <<>>
    /\ resumes_text_input = <<>>
    /\ pc = "idle"
    /\ file_idx = 1
    /\ resume_list = <<>>
    /\ resume_names = <<>>
    /\ origin = <<>>
    /\ visited = {}
    /\ messages = <<>>
    /\ outcome = "none"
    /\ similarity_scores = <<>>
    /\ results_df = <<>>
    /\ pp_in \in TextsUpTo(MaxLen)
    /\ pp_out = None

CallPreprocess ==
    /\ pp_out = None
    /\ pp_out' = preprocess_text(pp_in)
    /\ UNCHANGED <<inputVars, runVars, pp_in>>

PreNext == CallPreprocess

PreSpec == PreInit /\ [][PreNext]_vars

----------------------------------------------------------------------------
(* Notions the properties are stated in *)

Done == pc = "done"
Blank(text) == strip(text) = <<>>

\* The file fails: unrecognised extension, or bytes its format cannot read.
Failing(uploaded_file) ==
    ~Supported(file_extension(uploaded_file.name)) \/ ~uploaded_file.ok

\* The file yields text that is not blank.
Usable(uploaded_file) ==
    /\ ~Failing(uploaded_file)
    /\ Truthy(ResumeContent(uploaded_file))

FileIndices == 1..Len(uploaded_files)
NoUsableCandidate ==
    /\ \A i \in FileIndices : ~Usable(uploaded_files[i])
    /\ pasted_resumes(resumes_text_input) = <<>>

\* The terms the vectorizer takes from a raw text.
Terms(text) == Range(analyze(preprocess_text(text)))
SharesTerm(text) ==
    \E t \in Terms(job_description_input) :
       Count(analyze(preprocess_text(text)), t) > 0

\* The segments of the pasted text, blank ones included.
SuppliedSegments ==
    IF resumes_text_input = <<>> THEN <<>> ELSE split(resumes_text_input)
SuppliedCount == Len(uploaded_files) + Len(SuppliedSegments)

\* The st.warning calls: each names one excluded input.
Warnings == SelectSeq(messages, LAMBDA m : m.level = "warning")

AcceptedUploads == Cardinality({i \in 1..Len(origin) : origin[i].src = "file"})

Rows == 1..Len(results_df)
HundredPercent == 100 * 1000 * 1000

----------------------------------------------------------------------------
(* Properties *)

\* C1: a run whose job description is empty or only whitespace ends with
\* MissingReference and without results, whatever candidates were supplied.
\* (Stated for the runs that accepted a candidate with a term and in which
\* no upload raises, so that a violation is a validated run with candidates.)
C1_BlankReferenceIsMissing ==
    ( /\ Done /\ outcome # "UnicodeDecodeError"
      /\ Blank(job_description_input)
      /\ \E i \in 1..Len(resume_list) : Terms(resume_list[i]) # {} )
    => (outcome = "MissingReference" /\ results_df = <<>>)

\* C2: a run with a non-empty job description and no usable candidate (no
\* input at all, or every file and every pasted segment empty, blank,
\* unsupported or failing extraction) ends with NoCandidates and no results.
C2_NoUsableIsNoCandidates ==
    (Done /\ ~Blank(job_description_input) /\ NoUsableCandidate)
        => (outcome = "NoCandidates" /\ results_df = <<>>)

\* C3: a failing file never aborts the batch: every uploaded file is reached
\* by the loop, and a run with a failing file still ends with results when
\* the job description has a term and another candidate is usable.
C3_FailureNeverAborts ==
    Done =>
      /\ \A i \in FileIndices : i \in visited
      /\ ( /\ Terms(job_description_input) # {}
           /\ \E i \in FileIndices : Failing(uploaded_files[i])
           /\ ~NoUsableCandidate )
         => outcome = "Results"

\* C4: in a run with results every supplied candidate is accounted for once:
\* the rows plus the reported exclusions number the supplied candidates, and
\* every uploaded file is a row or is named by a warning.  (Stated for the
\* runs whose job description has a term.)
C4_EveryCandidateAccounted ==
    (outcome = "Results" /\ Terms(job_description_input) # {}) =>
      /\ Len(results_df) + Len(Warnings) = SuppliedCount
      /\ \A i \in FileIndices :
            \/ \E k \in 1..Len(origin) :
                  origin[k].src = "file" /\ origin[k].idx = i
            \/ \E w \in 1..Len(Warnings) :
                  Warnings[w].name = uploaded_files[i].name

\* C5: the output is the stable descending sort by score: scores never
\* increase down the rows, and rows of equal score keep their input order.
\* (Stated for the runs whose job description has a term.)
C5_StableDescending ==
    (outcome = "Results" /\ Terms(job_description_input) # {}) =>
      \A i, j \in Rows : i < j =>
         /\ results_df[i].MatchScore >= results_df[j].MatchScore
         /\ results_df[i].MatchScore = results_df[j].MatchScore
               => results_df[i].index < results_df[j].index

\* C6: the k-th non-empty pasted segment is labelled "Pasted Resume n" with
\* n = k + the number of uploaded files accepted into the candidate list.
C6_PastedOffsetIsAccepted ==
    pc \in {"score", "done"} =>
      \A i \in 1..Len(origin) : origin[i].src = "pasted" =>
         resume_names[i] = PastedLabel(origin[i].idx + AcceptedUploads)

\* C7: preprocess_text returns only lowercase letters, digits and
\* whitespace, never two whitespace characters in a row, none at either end.
C7_OnlyLettersDigitsSpace ==
    pp_out # None =>
      /\ \A i \in 1..Len(pp_out) :
            pp_out[i] \in LowerLetters \cup Digits \cup Whitespace
      /\ \A i \in 1..(Len(pp_out) - 1) :
            ~(IsSpace(pp_out[i]) /\ IsSpace(pp_out[i + 1]))
      /\ pp_out # <<>> => ~IsSpace(pp_out[1]) /\ ~IsSpace(pp_out[Len(pp_out)])

\* C8: with a non-empty job description, a run that accepted a candidate
\* whose text normalizes to the empty string completes with results, and
\* that candidate's score is 0, also when the job description has no term.
C8_EmptyNormalizedScoresZero ==
    ( /\ Done /\ outcome # "UnicodeDecodeError"
      /\ ~Blank(job_description_input)
      /\ \E i \in 1..Len(resume_list) : preprocess_text(resume_list[i]) = <<>> )
    => /\ outcome = "Results"
       /\ \A k \in Rows :
             preprocess_text(results_df[k].OriginalResumeText) = <<>>
                => results_df[k].MatchScore = 0

\* The rows whose candidate shares a term with the job description.
SharingRows == {k \in Rows : SharesTerm(results_df[k].OriginalResumeText)}

\* C9 as claimed: a candidate sharing a term with the job description is
\* ranked above one sharing none, and both score in (0, 100].
C9_BothScoresPositive ==
    outcome = "Results" =>
      \A sharing \in {SharingRows} :
         \A a \in sharing, b \in Rows \ sharing :
            /\ a < b
            /\ results_df[a].MatchScore > 0
            /\ results_df[a].MatchScore <= HundredPercent
            /\ results_df[b].MatchScore > 0
            /\ results_df[b].MatchScore <= HundredPercent

\* C9 amended: a candidate sharing a term with the job description is ranked
\* above one sharing none; the first scores in (0, 100], the second exactly 0.
C9_SharedAboveUnshared ==
    outcome = "Results" =>
      \A sharing \in {SharingRows} :
         \A a \in sharing, b \in Rows \ sharing :
            /\ a < b
            /\ results_df[a].MatchScore > 0
            /\ results_df[a].MatchScore <= HundredPercent
            /\ results_df[b].MatchScore = 0

\* The example of the specification has run: job description RefText, the
\* pasted candidates TextA, TextB and an empty third one.
C9_Witness ==
    /\ outcome = "Results"
    /\ job_description_input = RefText
    /\ uploaded_files = <<>>
    /\ Len(SuppliedSegments) = 3
    /\ Len(results_df) = 2
    /\ results_df[1].OriginalResumeText = TextA
    /\ results_df[2].OriginalResumeText = TextB

\* Every output row carries the label and the raw text of the candidate at
\* its index of the input lists, and 100 times the similarity at that index.
RowsCarry(scores) ==
    \A k \in Rows :
       LET i == results_df[k].index
       IN  /\ results_df[k].ResumeID = resume_names[i]
           /\ results_df[k].OriginalResumeText = resume_list[i]
           /\ results_df[k].MatchScore = MatchScore(scores[i])

\* C10: resume_names and resume_list always have one length and position i
\* of both is the same candidate; the output has one row per accepted
\* candidate, each with the label, the raw text and the score of the vector
\* of that candidate.
C10_NamesAlignedWithTexts ==
    /\ Len(resume_names) = Len(resume_list)
    /\ Len(origin) = Len(resume_list)
    /\ \A i \in 1..Len(origin) :
          IF origin[i].src = "file"
          THEN /\ resume_names[i] = FileLabel(uploaded_files[origin[i].idx].name)
               /\ resume_list[i] = ResumeContent(uploaded_files[origin[i].idx])
          ELSE /\ resume_names[i].kind = "pasted"
               /\ resume_list[i] =
                    pasted_resumes(resumes_text_input)[origin[i].idx]
    /\ \A i, j \in 1..Len(origin) : i # j => origin[i] # origin[j]
    /\ outcome = "Results" =>
          /\ Len(results_df) = Len(resume_list)
          /\ {results_df[k].index : k \in Rows} = 1..Len(resume_list)
          /\ Len(similarity_scores) = Len(resume_list)
          /\ RowsCarry(similarity_scores)

\* A run with results whose candidates came from files and from pasted text,
\* with an uploaded file that was not accepted.
C10_Witness ==
    /\ outcome = "Results"
    /\ \E i, j \in 1..Len(origin) :
          origin[i].src = "file" /\ origin[j].src = "pasted"
    /\ AcceptedUploads < Len(uploaded_files)

====
